---- MODULE Spec2Model ----
(***************************************************************************)
(* Model of src/kk7.ipynb: the backtrader strategy MLStrategy (bar-by-bar  *)
(* forecast-driven executor), its position-size expression, and            *)
(* EnhancedDataPipeline.normalize_data (per-method evaluation loop and     *)
(* best-method selection).                                                 *)
(*                                                                         *)
(* Numbers are integers: prices, cash and predictions are whole units, and *)
(* the float expression int(value * (risk_percent / 100) / price) is       *)
(* computed exactly as the truncation of value*risk_percent/(100*price).   *)
(***************************************************************************)
EXTENDS Integers, Sequences, FiniteSets

VARIABLES
    lookback,          \* self.p.lookback
    risk_percent,      \* self.p.risk_percent
    closes,            \* self.data.close, bars delivered so far; len(self.data) = Len(closes)
    predicted_prices,  \* self.predicted_prices
    position,          \* self.position.size
    cash,              \* broker cash
    equity,            \* broker value recorded at the end of each completed bar
    acts,              \* order call made by next() on each completed bar
    raised,            \* exception that propagated out of next(), "none" if none
    run,               \* cerebro.run(): "running", "finished", "aborted"
    sizing,            \* one evaluation of the position-size expression
    results,           \* normalize_data: the list `results`
    ni,                \* normalize_data: index of the instrument being evaluated
    mi,                \* normalize_data: index of the method being evaluated
    skipped,           \* normalize_data: (instrument, method) pairs whose evaluation raised
    best_methods,      \* normalize_data: rows of best_methods
    normpc             \* normalize_data: "loop", "done", "KeyError"

stratVars == <<lookback, risk_percent, closes, predicted_prices, position, cash,
               equity, acts, raised, run>>
normVars == <<results, ni, mi, skipped, best_methods, normpc>>
vars == <<lookback, risk_percent, closes, predicted_prices, position, cash,
          equity, acts, raised, run, sizing, results, ni, mi, skipped,
          best_methods, normpc>>

----------------------------------------------------------------------------
(* Bounds of the model *)

MaxBars == 5
MaxLookback == 2
MaxPred == 2
StartCash == 50
NumInstruments == 2

(* Program constants *)

risk_percent_default == 2

Prices == {1, 2}
Preds == 0..MaxPred
RiskPercents == {risk_percent_default, 2 * risk_percent_default}
R2Values == {0, 1}
Methods == <<"Z-Score", "Min-Max", "Box-Cox", "Log">>
Instruments == 1..NumInstruments

----------------------------------------------------------------------------
(* Helpers *)

Last(s) == s[Len(s)]

Abs(n) == IF n < 0 THEN -n ELSE n

\* int(n / d) for d # 0: Python's int() truncates toward zero
Trunc(n, d) ==
    IF (n >= 0) = (d > 0) THEN Abs(n) \div Abs(d) ELSE -(Abs(n) \div Abs(d))

----------------------------------------------------------------------------
(* MLStrategy *)

\* if len(self.data) < self.p.lookback: return
\* (WarmingOffByOne: the comparison written as <=)
WarmingOffByOne(len, lb) == len <= lb
Warming(len, lb) == len < lb

\* if len(self.predicted_prices) < 2: return
NoPrevious(preds) == Len(preds) < 2

\* prediction > prev_pred and not self.position
\* (BuySignalAnyPosition: the position test dropped; BuySignalReversed: the comparison
\* reversed)
BuySignalAnyPosition(prediction, prev_pred, pos) == prediction > prev_pred
BuySignalReversed(prediction, prev_pred, pos) == prediction < prev_pred /\ pos = 0
BuySignal(prediction, prev_pred, pos) == prediction > prev_pred /\ pos = 0

\* elif prediction < prev_pred and self.position
\* (CloseSignalAnyChange: the comparison written as !=)
CloseSignalAnyChange(prediction, prev_pred, pos) == prediction # prev_pred /\ pos # 0
CloseSignal(prediction, prev_pred, pos) == prediction < prev_pred /\ pos # 0

\* self.broker.getvalue()
Value(c, pos, price) == c + pos * price

\* risk_amount = value * (risk_percent / 100); size = int(risk_amount / current_price)
Size(value, rp, price) == Trunc(value * rp, 100 * price)

\* the order created by self.buy(size=size), none when size is 0
BuyCall(size) == IF size = 0 THEN "buy0" ELSE "buy"

\* the fill of a buy of `size` at `price`
BrokerBuyCash(c, size, price) == c - size * price
BrokerBuyPosition(pos, size) == pos + size

\* self.close() passes no size: the whole position is sold
\* (CloseSizeOne: a single unit sold instead)
CloseSizeOne(pos) == 1
CloseSize(pos) == pos

\* the fill of a sale of `size` at `price`
BrokerSellCash(c, size, price) == c + size * price
BrokerSellPosition(pos, size) == pos - size

\* MLStrategy.__init__ on a fresh broker; `running` is "idle" when no backtest runs
StrategyInit(running) ==
    /\ closes = << >>
    /\ predicted_prices = << >>
    /\ position = 0
    /\ cash = StartCash
    /\ equity = << >>
    /\ acts = << >>
    /\ raised = "none"
    /\ run = running

\* no size is being computed
SizingIdle ==
    sizing = [value |-> 0, risk_percent |-> 0, price |-> 1, done |-> TRUE,
              raised |-> "none", size |-> 0]

\* normalize_data at its first statement; `pc` is "idle" when it is not called
NormalizeInit(pc) ==
    /\ results = << >>
    /\ ni = 1
    /\ mi = 1
    /\ skipped = {}
    /\ best_methods = << >>
    /\ normpc = pc

Init ==
    /\ lookback \in 1..MaxLookback
    /\ risk_percent \in RiskPercents
    /\ StrategyInit("running")
    /\ SizingIdle
    /\ NormalizeInit("idle")

BarArrives(price) ==
    /\ run = "running"
    /\ Len(closes) < MaxBars
    /\ closes' = Append(closes, price)
    /\ UNCHANGED <<lookback, risk_percent, sizing, normVars>>

\* the bar ends: the broker's value is recorded
\* (BarCompletesOnceForecasting: recorded only once a prediction exists)
BarCompletesOnceForecasting(act, price) ==
    /\ acts' = Append(acts, act)
    /\ equity' = IF predicted_prices' = << >> THEN equity
                 ELSE Append(equity, Value(cash', position', price))

BarCompletes(act, price) ==
    /\ acts' = Append(acts, act)
    /\ equity' = Append(equity, Value(cash', position', price))

\* next() returns at line 44
NextWarming(price) ==
    /\ BarArrives(price)
    /\ Warming(Len(closes'), lookback)
    /\ UNCHANGED <<predicted_prices, position, cash, raised, run>>
    /\ BarCompletes("none", price)

\* self.model.predict(X) raises at line 49: nothing in next() or backtest() catches it
NextPredictRaises(price) ==
    /\ BarArrives(price)
    /\ ~Warming(Len(closes'), lookback)
    /\ raised' = "predict"
    /\ run' = "aborted"
    /\ UNCHANGED <<predicted_prices, position, cash, equity, acts>>

\* next() returns at line 53
NextFirstPrediction(price, prediction) ==
    /\ BarArrives(price)
    /\ ~Warming(Len(closes'), lookback)
    /\ predicted_prices' = Append(predicted_prices, prediction)
    /\ NoPrevious(predicted_prices')
    /\ UNCHANGED <<position, cash, raised, run>>
    /\ BarCompletes("none", price)

\* lines 59-62
NextBuy(price, prediction) ==
    /\ BarArrives(price)
    /\ ~Warming(Len(closes'), lookback)
    /\ predicted_prices' = Append(predicted_prices, prediction)
    /\ ~NoPrevious(predicted_prices')
    /\ BuySignal(prediction, Last(predicted_prices), position)
    /\ LET size == Size(Value(cash, position, price), risk_percent, price)
       IN  /\ cash' = BrokerBuyCash(cash, size, price)
           /\ position' = BrokerBuyPosition(position, size)
           /\ UNCHANGED <<raised, run>>
           /\ BarCompletes(BuyCall(size), price)

\* lines 63-64
NextClose(price, prediction) ==
    /\ BarArrives(price)
    /\ ~Warming(Len(closes'), lookback)
    /\ predicted_prices' = Append(predicted_prices, prediction)
    /\ ~NoPrevious(predicted_prices')
    /\ ~BuySignal(prediction, Last(predicted_prices), position)
    /\ CloseSignal(prediction, Last(predicted_prices), position)
    /\ cash' = BrokerSellCash(cash, CloseSize(position), price)
    /\ position' = BrokerSellPosition(position, CloseSize(position))
    /\ UNCHANGED <<raised, run>>
    /\ BarCompletes("close", price)

\* neither branch of lines 59-64 is taken
NextHold(price, prediction) ==
    /\ BarArrives(price)
    /\ ~Warming(Len(closes'), lookback)
    /\ predicted_prices' = Append(predicted_prices, prediction)
    /\ ~NoPrevious(predicted_prices')
    /\ ~BuySignal(prediction, Last(predicted_prices), position)
    /\ ~CloseSignal(prediction, Last(predicted_prices), position)
    /\ UNCHANGED <<position, cash, raised, run>>
    /\ BarCompletes("none", price)

\* the feed is exhausted: cerebro.run() returns
FeedExhausted ==
    /\ run = "running"
    /\ Len(closes) >= 1
    /\ run' = "finished"
    /\ UNCHANGED <<closes, predicted_prices, position, cash, equity, acts, raised>>
    /\ UNCHANGED <<lookback, risk_percent, sizing, normVars>>

Next ==
    \/ \E price \in Prices : NextWarming(price)
    \/ \E price \in Prices : NextPredictRaises(price)
    \/ \E price \in Prices, prediction \in Preds : NextFirstPrediction(price, prediction)
    \/ \E price \in Prices, prediction \in Preds : NextBuy(price, prediction)
    \/ \E price \in Prices, prediction \in Preds : NextClose(price, prediction)
    \/ \E price \in Prices, prediction \in Preds : NextHold(price, prediction)
    \/ FeedExhausted

Spec == Init /\ [][Next]_vars

----------------------------------------------------------------------------
(* The position-size expression of MLStrategy.next, lines 60-61, on its own *)

SizeValues == {0, StartCash, 100, 10000}
SizeRisks == {0, 1, risk_percent_default, 2 * risk_percent_default, 100}
SizePrices == {-2, -1, 0, 1, 2, 3}

SizeInit ==
    /\ lookback = 1
    /\ risk_percent = risk_percent_default
    /\ StrategyInit("idle")
    /\ NormalizeInit("idle")
    /\ sizing \in [value : SizeValues, risk_percent : SizeRisks, price : SizePrices,
                    done : {FALSE}, raised : {"none"}, size : {0}]

\* risk_amount / current_price with current_price = 0.0 raises ZeroDivisionError
SizeRaises ==
    /\ ~sizing.done
    /\ sizing.price = 0
    /\ sizing' = [sizing EXCEPT !.done = TRUE, !.raised = "ZeroDivisionError"]
    /\ UNCHANGED <<stratVars, normVars>>

SizeReturns ==
    /\ ~sizing.done
    /\ sizing.price # 0
    /\ sizing' = [sizing EXCEPT !.done = TRUE,
                                !.size = Size(sizing.value, sizing.risk_percent, sizing.price)]
    /\ UNCHANGED <<stratVars, normVars>>

SizeNext ==
    \/ SizeRaises
    \/ SizeReturns

SpecSize == SizeInit /\ [][SizeNext]_vars

----------------------------------------------------------------------------
(* EnhancedDataPipeline.normalize_data *)

\* the dict `metrics`; MAE and MSE are recorded but never read by the selection
Row(inst, method, r2) == [instrument |-> inst, method |-> method, R2 |-> r2]

\* the nested for loops of lines 225 and 228 move on
AdvanceLoop ==
    IF mi < Len(Methods)
    THEN mi' = mi + 1 /\ ni' = ni
    ELSE mi' = 1 /\ ni' = ni + 1

\* Series.idxmax over the rows of one group, scanning `from`..Len(rows): the label of
\* the first occurrence of the maximum; `best` is the label so far, 0 for none
\* (IdxMaxLast: the last occurrence instead)
RECURSIVE IdxMaxLast(_, _, _, _)
IdxMaxLast(rows, inst, from, best) ==
    IF from > Len(rows) THEN best
    ELSE IF rows[from].instrument = inst /\ (best = 0 \/ rows[from].R2 >= rows[best].R2)
         THEN IdxMaxLast(rows, inst, from + 1, from)
         ELSE IdxMaxLast(rows, inst, from + 1, best)

RECURSIVE IdxMax(_, _, _, _)
IdxMax(rows, inst, from, best) ==
    IF from > Len(rows) THEN best
    ELSE IF rows[from].instrument = inst /\ (best = 0 \/ rows[from].R2 > rows[best].R2)
         THEN IdxMax(rows, inst, from + 1, from)
         ELSE IdxMax(rows, inst, from + 1, best)

\* df.loc[df.groupby('Инструмент')['R2'].idxmax()]: one labelled row per group, groups
\* in key order (instruments are numbered in key order); `inst` is the next key
RECURSIVE BestRows(_, _)
BestRows(rows, inst) ==
    IF inst > NumInstruments THEN << >>
    ELSE LET label == IdxMax(rows, inst, 1, 0)
         IN  IF label = 0 THEN BestRows(rows, inst + 1)
             ELSE <<[index |-> label, instrument |-> rows[label].instrument,
                     method |-> rows[label].method, R2 |-> rows[label].R2]>>
                  \o BestRows(rows, inst + 1)

NormInit ==
    /\ lookback = 1
    /\ risk_percent = risk_percent_default
    /\ StrategyInit("idle")
    /\ SizingIdle
    /\ NormalizeInit("loop")

\* lines 230-248 complete: the row is appended
EvaluateReturns(r2) ==
    /\ normpc = "loop"
    /\ ni <= NumInstruments
    /\ results' = Append(results, Row(ni, Methods[mi], r2))
    /\ AdvanceLoop
    /\ UNCHANGED <<skipped, best_methods, normpc, stratVars, sizing>>

\* lines 230-242 raise: the except of line 250 prints and the loop goes on
EvaluateRaises ==
    /\ normpc = "loop"
    /\ ni <= NumInstruments
    /\ skipped' = skipped \cup {<<ni, Methods[mi]>>}
    /\ AdvanceLoop
    /\ UNCHANGED <<results, best_methods, normpc, stratVars, sizing>>

\* lines 254-259 on a non-empty `results`
SelectReturns ==
    /\ normpc = "loop"
    /\ ni > NumInstruments
    /\ results # << >>
    /\ best_methods' = BestRows(results, 1)
    /\ normpc' = "done"
    /\ UNCHANGED <<results, ni, mi, skipped, stratVars, sizing>>

\* line 255 on an empty `results`: pd.DataFrame([]) has no column to group by
SelectRaises ==
    /\ normpc = "loop"
    /\ ni > NumInstruments
    /\ results = << >>
    /\ normpc' = "KeyError"
    /\ UNCHANGED <<results, ni, mi, skipped, best_methods, stratVars, sizing>>

NormNext ==
    \/ \E r2 \in R2Values : EvaluateReturns(r2)
    \/ EvaluateRaises
    \/ SelectReturns
    \/ SelectRaises

SpecNorm == NormInit /\ [][NormNext]_vars

----------------------------------------------------------------------------
(* Properties *)

\* the number of the prediction made on bar b
PredNo(b) == b - lookback + 1

\* bars on which a previous prediction exists, so that lines 59-64 are reached
SignalBars == {b \in DOMAIN acts : PredNo(b) >= 2}

StrictlyIncreasing(p) == \A k \in 2..Len(p) : p[k] > p[k - 1]

\* up on the 2nd, 4th, ... prediction and down on the 3rd, 5th, ...
Alternating(p) ==
    \A k \in 2..Len(p) : IF k % 2 = 0 THEN p[k] > p[k - 1] ELSE p[k] < p[k - 1]

\* C1: on every bar, next() calls buy only while no position is open, calls close only
\* while a position is open, and the position size is never negative.
C1_OrdersMatchPosition ==
    [][ /\ position' >= 0
        /\ Len(acts') = Len(acts) + 1 =>
              /\ Last(acts') \in {"buy", "buy0"} => position = 0
              /\ Last(acts') = "close" => position > 0 ]_vars

C1_Witness ==
    /\ run = "finished"
    /\ \E i, j, k \in DOMAIN acts :
          i < j /\ j < k /\ acts[i] = "buy" /\ acts[j] = "close" /\ acts[k] = "buy"
    /\ position > 0

\* C2: a bar on which predict fails is skipped: the forecast history and the account
\* are unchanged and the simulation goes on to the next bar.
C2_FailedBarIsSkipped ==
    [][ (raised = "none" /\ raised' = "predict") =>
            /\ predicted_prices' = predicted_prices
            /\ cash' = cash /\ position' = position
            /\ run' = "running" ]_vars

\* C3 as stated: a finished run with strictly increasing predictions has exactly one
\* entry and no exit.
C3_ExactlyOneEntry ==
    (run = "finished" /\ Len(predicted_prices) >= 2 /\ StrictlyIncreasing(predicted_prices))
        => /\ Cardinality({b \in DOMAIN acts : acts[b] = "buy"}) = 1
           /\ \A b \in DOMAIN acts : acts[b] # "close"

\* C3 as amended: with strictly increasing predictions there is no exit, and the only
\* entry is on the first signal bar whose computed size is not 0 (none if there is no
\* such bar).
C3_AtMostOneEntry ==
    StrictlyIncreasing(predicted_prices)
        => /\ \A b \in DOMAIN acts : acts[b] # "close"
           /\ \A b \in DOMAIN acts :
                 acts[b] = "buy" <=>
                     /\ b \in SignalBars
                     /\ Size(StartCash, risk_percent, closes[b]) # 0
                     /\ \A c \in SignalBars :
                           c < b => Size(StartCash, risk_percent, closes[c]) = 0

C3_Witness ==
    /\ run = "finished"
    /\ Len(predicted_prices) >= 3
    /\ StrictlyIncreasing(predicted_prices)
    /\ \E b \in DOMAIN acts : b > 1 /\ acts[b - 1] = "buy0" /\ acts[b] = "buy"

\* C4 as stated: with alternating predictions every up-bar opens a position and every
\* down-bar closes it.
C4_AlternateEnterExit ==
    Alternating(predicted_prices)
        => \A b \in SignalBars :
              acts[b] = IF PredNo(b) % 2 = 0 THEN "buy" ELSE "close"

\* C4 as amended: with alternating predictions an up-bar opens a position exactly when
\* the computed size is not 0, and a down-bar closes exactly when the up-bar before it
\* opened one.
C4_AlternateWhenSized ==
    Alternating(predicted_prices)
        => \A b \in SignalBars :
              acts[b] = IF PredNo(b) % 2 = 0
                        THEN BuyCall(Size(equity[b - 1], risk_percent, closes[b]))
                        ELSE IF acts[b - 1] = "buy" THEN "close" ELSE "none"

C4_Witness ==
    /\ Alternating(predicted_prices)
    /\ Len(predicted_prices) >= 5
    /\ \E b \in DOMAIN acts :
          /\ b > 3
          /\ acts[b - 3] = "buy0" /\ acts[b - 2] = "none"
          /\ acts[b - 1] = "buy" /\ acts[b] = "close"

\* C5: when the close is the same on every bar from an entry to its exit, the equity
\* recorded on each of those bars equals the equity before the entry, and the cash
\* after the exit equals the cash before the entry (the account is flat on both sides,
\* so cash and equity coincide there).
C5_EquityConserved ==
    \A i, j \in DOMAIN acts :
        ( /\ i < j /\ acts[i] = "buy" /\ acts[j] = "close"
          /\ \A k \in (i + 1)..(j - 1) : acts[k] # "close"
          /\ \A k \in i..j : closes[k] = closes[i] )
        => /\ \A k \in i..j : equity[k] = equity[i - 1]
           /\ j = Len(acts) => cash = equity[i - 1] /\ position = 0

C5_Witness ==
    \E i, j \in DOMAIN acts :
        /\ i + 1 < j /\ acts[i] = "buy" /\ acts[j] = "close" /\ j = Len(acts)
        /\ \A k \in (i + 1)..(j - 1) : acts[k] = "none"
        /\ \A k \in i..j : closes[k] = closes[i]
        /\ closes[i - 1] # closes[i]
        /\ cash = StartCash

\* C6: the equity curve has one entry per bar delivered, warm-up bars and the bar of
\* the first prediction included, and its first entry is the initial cash.
C6_EquityCurvePerBar ==
    /\ raised = "none" => Len(equity) = Len(closes)
    /\ Len(equity) >= 1 => equity[1] = StartCash

C6_Witness ==
    /\ run = "finished"
    /\ lookback > 1
    /\ Len(equity) = MaxBars
    /\ \E b \in DOMAIN acts : acts[b] = "buy"
    /\ Last(equity) # StartCash

\* C7: the size is floor(equity * riskPercent / 100 / price) when that is positive and
\* 0 otherwise, 0 in particular for a price that is not positive, and computing it
\* never fails.
C7_SizeContract ==
    sizing.done =>
        /\ sizing.raised = "none"
        /\ sizing.size =
              IF sizing.price <= 0 THEN 0
              ELSE LET floor == (sizing.value * sizing.risk_percent) \div (100 * sizing.price)
                   IN  IF floor > 0 THEN floor ELSE 0

\* C8: whichever evaluations fail, the leaderboard holds exactly the rows of the pairs
\* that did not fail, the selection completes without an error, and an instrument all
\* of whose methods failed has no selection row.
C8_FailuresTolerated ==
    normpc \in {"done", "KeyError"} =>
        /\ normpc = "done"
        /\ {<<results[i].instrument, results[i].method>> : i \in DOMAIN results}
              = {<<inst, Methods[m]>> : inst \in Instruments, m \in DOMAIN Methods} \ skipped
        /\ \A inst \in Instruments :
              (\A m \in DOMAIN Methods : <<inst, Methods[m]>> \in skipped)
                  => \A k \in DOMAIN best_methods : best_methods[k].instrument # inst

MethodPos(method) == CHOOSE m \in DOMAIN Methods : Methods[m] = method

\* C9: for every instrument with at least one leaderboard row the selection holds
\* exactly one row, a row of the leaderboard for that instrument whose R2 is at least
\* that of every other row of the instrument and which, among the rows of maximal R2,
\* comes first in the method order.
C9_BestIsFirstMax ==
    normpc = "done" =>
        \A inst \in Instruments :
            LET group == {i \in DOMAIN results : results[i].instrument = inst}
                picks == {k \in DOMAIN best_methods : best_methods[k].instrument = inst}
            IN  group # {} =>
                    /\ Cardinality(picks) = 1
                    /\ \A k \in picks :
                          /\ best_methods[k].index \in group
                          /\ results[best_methods[k].index]
                                = Row(inst, best_methods[k].method, best_methods[k].R2)
                          /\ \A i \in group :
                                /\ results[i].R2 <= best_methods[k].R2
                                /\ results[i].R2 = best_methods[k].R2
                                      => MethodPos(results[i].method)
                                            >= MethodPos(best_methods[k].method)

C9_Witness ==
    /\ normpc = "done"
    /\ \E k \in DOMAIN best_methods, i, j \in DOMAIN results :
          /\ results[i].instrument = best_methods[k].instrument
          /\ results[j].instrument = best_methods[k].instrument
          /\ i < best_methods[k].index /\ best_methods[k].index < j
          /\ results[i].R2 < best_methods[k].R2
          /\ results[j].R2 = best_methods[k].R2

\* C10: no prediction is made and no order is issued while fewer than lookback bars
\* have been seen; from the bar that completes the window every bar appends exactly
\* one prediction and the earlier ones are never changed; no order is issued before
\* the bar after the first prediction.
C10_WarmUp ==
    [][ /\ Len(closes') = Len(closes) => predicted_prices' = predicted_prices
        /\ Len(closes') # Len(closes) =>
              /\ Len(closes') = Len(closes) + 1
              /\ Len(closes') < lookback =>
                    predicted_prices' = << >> /\ raised' = "none"
              /\ (Len(closes') >= lookback /\ raised' = "none") =>
                    /\ Len(predicted_prices') = Len(closes') - lookback + 1
                    /\ SubSeq(predicted_prices', 1, Len(predicted_prices)) = predicted_prices
              /\ raised' # "none" => predicted_prices' = predicted_prices
              /\ (Len(closes') <= lookback /\ raised' = "none") =>
                    /\ Len(acts') = Len(closes')
                    /\ Last(acts') = "none" ]_vars

C10_Witness ==
    /\ lookback > 1
    /\ Len(acts) > lookback
    /\ acts[lookback + 1] = "buy"
    /\ Len(predicted_prices) = Len(closes) - lookback + 1

====
